---- MODULE Spec2Model ----
(***************************************************************************)
(* A model of main.py: the METAR/TAF collector.  Times are minutes since   *)
(* an arbitrary midnight; a dict key that may be missing is a sequence of  *)
(* length 0 (missing) or 1 (present); Python values whose type matters     *)
(* (the "raw" field) are tagged records.                                   *)
(***************************************************************************)
EXTENDS Integers, Sequences, FiniteSets, TLC

VARIABLES
    pc,          \* position of the running program
    i,           \* index into AIRPORTS of the airport being processed (main's for loop)
    taf,         \* the TAF document handed to expand_taf_hourly
    station,     \* expand_taf_hourly's first argument
    t,           \* expand_taf_hourly's loop variable
    rows,        \* expand_taf_hourly's local list of rows
    ticks,       \* the values t took at the loop body's entry, in order
    metar_rows,  \* main's METAR accumulator
    taf_rows,    \* main's TAF accumulator
    files,       \* the file system: file name -> missing (<<>>) or <<lines>>
    out,         \* what was printed, in order
    m,           \* the METAR payload handed to parse_metar (raw-text runs)
    norm,        \* the records the raw-text runs produced
    calls,       \* the row batches of the write_csv calls that returned (writer runs)
    fetched      \* what get_metar and get_taf answered for each airport so far

vars == <<pc, i, taf, station, t, rows, ticks, metar_rows, taf_rows, files, out, m, norm, calls, fetched>>

----------------------------------------------------------------------------
(* Bounds of the model *)

MaxHour == 3
MaxSegs == 2
MaxStart == 1
NumAirports == 2
MaxRawLen == 3
MaxCalls == 3
MaxBatch == 2

(* timedelta(hours=1), in minutes *)
Hour == 60

----------------------------------------------------------------------------
(* Optional dict keys and Python values *)

Missing == <<>>
Some(x) == <<x>>
Has(o) == o # <<>>
Get(o) == o[1]

PyAbsent == [tag |-> "absent"]
PyNone == [tag |-> "none"]
PyStr(s) == [tag |-> "str", s |-> s]
PyList(l) == [tag |-> "list", l |-> l]
PyInt(n) == [tag |-> "int", n |-> n]

(* " ".join(l) *)
RECURSIVE Join(_)
Join(l) ==
    IF l = <<>> THEN ""
    ELSE IF Len(l) = 1 THEN l[1]
    ELSE l[1] \o " " \o Join(Tail(l))

(* dict.get(key, default): the default only when the key is missing *)
GetOr(v, default) == IF v = PyAbsent THEN default ELSE v

(* dict.get(key): None when the key is missing *)
GetOrNone(v) == GetOr(v, PyNone)

----------------------------------------------------------------------------
(* Configuration *)

AIRPORTS == << <<"NRT", "RJAA">>, <<"HND", "RJTT">>, <<"TSN", "ZBTJ">>,
               <<"DLC", "ZYTL">>, <<"SJW", "ZBSJ">> >>

TODAY == "today"

(* The airports of a run: the first NumAirports of the table. *)
Airports == SubSeq(AIRPORTS, 1, IF NumAirports < Len(AIRPORTS) THEN NumAirports ELSE Len(AIRPORTS))

Name(k) == Airports[k][1]
Icao(k) == Airports[k][2]

----------------------------------------------------------------------------
(* Report normalisation *)

(* parse_metar's raw field: m.get("raw", "") *)
MetarRawText(v) == GetOr(v, PyStr(""))

(* make_taf_row's raw field: e.get("raw"), a list joined, a non-string emptied *)
TafRawText(v) ==
    LET raw_str == GetOrNone(v)
    IN  IF raw_str.tag = "list" THEN PyStr(Join(raw_str.l))
        ELSE IF raw_str.tag # "str" THEN PyStr("")
        ELSE raw_str

(* t.strftime("%Y-%m-%d %H:%M"): the day, the hour and the minute of t *)
FormatTime(x) == <<x \div (24 * Hour), (x % (24 * Hour)) \div Hour, x % Hour>>

parse_metar(mm, name) ==
    [airport |-> name, icao |-> mm.station, raw |-> MetarRawText(mm.raw)]

make_taf_row(st, tt, e, layer) ==
    [station |-> st, forecast_time |-> FormatTime(tt), layer |-> layer,
     raw |-> TafRawText(e.raw)]

----------------------------------------------------------------------------
(* expand_taf_hourly *)

(* start.replace(minute=0, second=0, microsecond=0) *)
FloorHour(x) == x - (x % Hour)

(* A loop that stops one hour short: while t < end *)
LoopGuardExclusive(tt, end) == tt < end

(* while t <= end *)
LoopGuard(tt, end) == tt <= end

(* t += timedelta(hours=1) *)
NextTick(tt) == tt + Hour

(* e["type"] in ("BASE", "FM") *)
IsBaseKind(e) == e.type \in {"BASE", "FM"}

(* e["type"] == "TEMPO" *)
IsTempo(e) == e.type = "TEMPO"

(* An interval without its last hour: e_start <= t < e_end *)
CoversHalfOpen(e_start, tt, e_end) == e_start <= tt /\ tt < e_end

(* e_start <= t <= e_end *)
Covers(e_start, tt, e_end) == e_start <= tt /\ tt <= e_end

(* The comparison turned round: the earliest start wins *)
SupersedesEarliest(e_start, base_from) == e_start <= base_from

(* The comparison made strict: the first of equal starts is kept *)
SupersedesStrict(e_start, base_from) == e_start > base_from

(* e_start >= datetime.fromisoformat(base_event["time"]["from"]) *)
Supersedes(e_start, base_from) == e_start >= base_from

(* e["time"].get("to", end.isoformat()) *)
BaseEnd(e, end) == IF Has(e.to) THEN Get(e.to) ELSE end

(* e["time"]["to"] raises KeyError when the key is missing *)
TempoEndRaises(e) == ~Has(e.to)

(* e["time"]["from"] raises KeyError when the key is missing *)
StartRaises(e) == ~Has(e.from)

(* The first for loop of the body, from segment k on, base_event being base. *)
RECURSIVE BaseScan(_, _, _, _, _)
BaseScan(fc, k, base, tt, end) ==
    IF k > Len(fc) THEN [raised |-> FALSE, base |-> base]
    ELSE LET e == fc[k]
         IN  IF StartRaises(e) THEN [raised |-> TRUE, base |-> base]
             ELSE LET e_start == Get(e.from)
                      e_end == BaseEnd(e, end)
                  IN  IF /\ IsBaseKind(e)
                         /\ Covers(e_start, tt, e_end)
                         /\ (~Has(base) \/ Supersedes(e_start, Get(Get(base).from)))
                      THEN BaseScan(fc, k + 1, Some(e), tt, end)
                      ELSE BaseScan(fc, k + 1, base, tt, end)

(* The second for loop of the body, from segment k on, acc being rows so far. *)
RECURSIVE TempoScan(_, _, _, _, _)
TempoScan(fc, k, acc, tt, st) ==
    IF k > Len(fc) THEN [raised |-> FALSE, rows |-> acc]
    ELSE LET e == fc[k]
         IN  IF ~IsTempo(e) THEN TempoScan(fc, k + 1, acc, tt, st)
             ELSE IF StartRaises(e) \/ TempoEndRaises(e) THEN [raised |-> TRUE, rows |-> acc]
             ELSE IF Covers(Get(e.from), tt, Get(e.to))
                  THEN TempoScan(fc, k + 1, Append(acc, make_taf_row(st, tt, e, "TEMPO")), tt, st)
                  ELSE TempoScan(fc, k + 1, acc, tt, st)

(* if base_event: rows.append(make_taf_row(station, t, base_event, "BASE")) *)
BaseRows(base, tt, st) ==
    IF Has(base) THEN <<make_taf_row(st, tt, Get(base), "BASE")>> ELSE <<>>

(* One pass of the while body at hour tt: the rows it appends, or an exception. *)
TickBody(doc, tt, st) ==
    LET end == Get(doc.valid).to
        b == BaseScan(doc.forecast, 1, Missing, tt, end)
    IN  IF b.raised THEN [raised |-> TRUE, rows |-> <<>>]
        ELSE TempoScan(doc.forecast, 1, BaseRows(b.base, tt, st), tt, st)

(* taf["time"]["dt"], taf["valid_time"]["from"], taf["valid_time"]["to"] *)
HeaderRaises(doc) == ~Has(doc.issued) \/ ~Has(doc.valid)

ExpandEnter ==
    /\ pc = "enter"
    /\ IF HeaderRaises(taf)
       THEN pc' = "raised" /\ UNCHANGED <<t, rows, ticks>>
       ELSE /\ pc' = "loop"
            /\ t' = FloorHour(Get(taf.valid).from)
            /\ rows' = <<>>
            /\ ticks' = <<>>
    /\ UNCHANGED <<i, taf, station, metar_rows, taf_rows, files, out, m, norm, calls, fetched>>

ExpandTick ==
    /\ pc = "loop"
    /\ LoopGuard(t, Get(taf.valid).to)
    /\ LET r == TickBody(taf, t, station)
       IN  IF r.raised
           THEN pc' = "raised" /\ UNCHANGED <<t, rows>>
           ELSE pc' = "loop" /\ rows' = rows \o r.rows /\ t' = NextTick(t)
    /\ ticks' = Append(ticks, t)
    /\ UNCHANGED <<i, taf, station, metar_rows, taf_rows, files, out, m, norm, calls, fetched>>

ExpandReturn ==
    /\ pc = "loop"
    /\ ~LoopGuard(t, Get(taf.valid).to)
    /\ pc' = "returned"
    /\ UNCHANGED <<i, taf, station, t, rows, ticks, metar_rows, taf_rows, files, out, m, norm, calls, fetched>>

----------------------------------------------------------------------------
(* The TAF documents the expander is run on *)

SegTypes == {"BASE", "FM", "TEMPO"}

(* A segment's times: a start on one of the first hours or missing, an end *)
(* one hour after its start (valid_from <= valid_to) or missing.           *)
SegShapes ==
    {[type |-> ty, from |-> Missing, to |-> Missing] : ty \in SegTypes}
    \cup {[type |-> ty, from |-> Some(h * Hour), to |-> Missing] :
            ty \in SegTypes, h \in 0..MaxStart}
    \cup {[type |-> ty, from |-> Some(h * Hour), to |-> Some(NextTick(h * Hour))] :
            ty \in SegTypes, h \in 0..MaxStart}

(* Segment k of a forecast list carries the raw text "Sk". *)
Labelled(shapes) ==
    [k \in 1..Len(shapes) |->
        [type |-> shapes[k].type, from |-> shapes[k].from, to |-> shapes[k].to,
         raw |-> PyStr("S" \o ToString(k))]]

Forecasts(n) ==
    {Labelled(f) : f \in UNION {[1..k -> SegShapes] : k \in 0..n}}

(* valid_time: a start on or off the hour, an end before, on or off an hour *)
Windows ==
    {[from |-> f, to |-> e] :
        f \in {0, Hour \div 2, Hour},
        e \in {0, MaxHour * Hour - Hour \div 2, MaxHour * Hour}}

(* An open-ended BASE line from the first hour on, then MaxSegs TEMPO groups. *)
TempoForecasts ==
    {Labelled(<<[type |-> "BASE", from |-> Some(0), to |-> Missing]>> \o f) :
        f \in [1..MaxSegs -> {sh \in SegShapes : sh.type = "TEMPO"}]}

(* A document whose header is intact, and one with a header key missing. *)
IsExpandDoc(d) ==
    \/ \E w \in Windows, fc \in TempoForecasts :
          d = [issued |-> Some(0), valid |-> Some(w), forecast |-> fc]
    \/ \E w \in Windows, fc \in Forecasts(MaxSegs) :
          d = [issued |-> Some(0), valid |-> Some(w), forecast |-> fc]
    \/ \E w \in Windows, fc \in Forecasts(1) :
          d = [issued |-> Missing, valid |-> Some(w), forecast |-> fc]
    \/ \E is \in {Missing, Some(0)}, fc \in Forecasts(1) :
          d = [issued |-> is, valid |-> Missing, forecast |-> fc]

NoDoc == [issued |-> Missing, valid |-> Missing, forecast |-> <<>>]
NoMetar == [station |-> "", raw |-> PyAbsent]

InitExpand ==
    /\ pc = "enter"
    /\ i = 1
    /\ IsExpandDoc(taf)
    /\ station = Name(1)
    /\ t = 0
    /\ rows = <<>>
    /\ ticks = <<>>
    /\ metar_rows = <<>>
    /\ taf_rows = <<>>
    /\ files = <<>>
    /\ out = <<>>
    /\ m = NoMetar
    /\ norm = <<>>
    /\ calls = <<>>
    /\ fetched = <<>>

NextExpand == ExpandEnter \/ ExpandTick \/ ExpandReturn

SpecExpand == InitExpand /\ [][NextExpand]_vars

----------------------------------------------------------------------------
(* write_csv *)

(* The columns of the model's rows, in the order of metar_fields and taf_fields. *)
metar_fields == <<"airport", "icao", "raw">>
taf_fields == <<"station", "forecast_time", "layer", "raw">>

(* writer.writeheader() *)
HeaderLine(fieldnames) == [kind |-> "header", cells |-> fieldnames]

(* writer.writerows(rows): each row's values in the order of fieldnames *)
RowLines(rws, fieldnames) ==
    [k \in 1..Len(rws) |->
        [kind |-> "row", cells |-> [c \in 1..Len(fieldnames) |-> rws[k][fieldnames[c]]]]]

(* os.path.exists(filename) *)
Exists(fs, filename) == filename \in DOMAIN fs

(* A header before every block of rows *)
WriteHeaderAlways(fs, filename) == TRUE

(* write_header = not os.path.exists(filename) *)
WriteHeader(fs, filename) == ~Exists(fs, filename)

(* The file system after write_csv(filename, rows, fieldnames) returned. *)
write_csv(fs, filename, rws, fieldnames) ==
    IF rws = <<>> THEN fs
    ELSE LET old == IF Exists(fs, filename) THEN fs[filename] ELSE <<>>
             head == IF WriteHeader(fs, filename) THEN <<HeaderLine(fieldnames)>> ELSE <<>>
         IN  [f \in DOMAIN fs \cup {filename} |->
                 IF f = filename THEN old \o head \o RowLines(rws, fieldnames) ELSE fs[f]]

(* open(filename, "a") is reached, and may raise, only with rows to write *)
OpenMayRaise(rws) == rws # <<>>

----------------------------------------------------------------------------
(* main *)

(* One name for both report kinds *)
FileNameNoKind(kind) == "report_" \o TODAY \o ".csv"

(* f"metar_{TODAY}.csv", f"taf_{TODAY}.csv" *)
FileName(kind) == kind \o "_" \o TODAY \o ".csv"

(* The for loop gives up at the first TAF error *)
AfterTafBreak(k) == [i |-> k, pc |-> "write_metar"]

(* The next airport of the for loop, or the statements after it. *)
AfterTaf(k) ==
    IF k < Len(Airports) THEN [i |-> k + 1, pc |-> "metar"]
    ELSE [i |-> k, pc |-> "write_metar"]

(* After the except clause of the TAF try: the loop goes on. *)
AfterTafError(k) == AfterTaf(k)

(* What get_metar may answer for airport k. *)
MetarPayloads(k) ==
    {[station |-> Icao(k), raw |-> PyStr("METAR " \o Icao(k))]}

(* What get_taf may answer: a TAF that expands, an empty one, and the *)
(* malformed ones (no valid_time, a segment without "from", a TEMPO    *)
(* without "to").                                                      *)
MainDocs ==
    LET w == [from |-> Hour \div 2, to |-> MaxHour * Hour]
        base == [type |-> "BASE", from |-> Some(0), to |-> Missing]
        doc(va, shapes) == [issued |-> Some(0), valid |-> va, forecast |-> Labelled(shapes)]
    IN  { doc(Some(w), <<base, [type |-> "TEMPO", from |-> Some(Hour), to |-> Some(NextTick(Hour))]>>),
          doc(Some(w), <<>>),
          doc(Missing, <<base>>),
          doc(Some(w), <<base, [type |-> "FM", from |-> Missing, to |-> Missing]>>),
          doc(Some(w), <<base, [type |-> "TEMPO", from |-> Some(Hour), to |-> Missing]>>) }

Init ==
    /\ pc = "metar"
    /\ i = 1
    /\ taf = NoDoc
    /\ station = ""
    /\ t = 0
    /\ rows = <<>>
    /\ ticks = <<>>
    /\ metar_rows = <<>>
    /\ taf_rows = <<>>
    /\ files = <<>>
    /\ out = <<>>
    /\ m = NoMetar
    /\ norm = <<>>
    /\ calls = <<>>
    /\ fetched = <<>>

(* try: m = get_metar(icao); metar_rows.append(parse_metar(m, name)) *)
MetarOk ==
    /\ pc = "metar"
    /\ \E mm \in MetarPayloads(i) :
          /\ metar_rows' = Append(metar_rows, parse_metar(mm, Name(i)))
          /\ fetched' = Append(fetched, [metar |-> Some(mm), taf |-> Missing])
    /\ pc' = "taf"
    /\ UNCHANGED <<i, taf, station, t, rows, ticks, taf_rows, files, out, m, norm, calls>>

(* except Exception as e: print("METAR error:", icao, e) *)
MetarError ==
    /\ pc = "metar"
    /\ out' = Append(out, <<"METAR error:", Icao(i)>>)
    /\ fetched' = Append(fetched, [metar |-> Missing, taf |-> Missing])
    /\ pc' = "taf"
    /\ UNCHANGED <<i, taf, station, t, rows, ticks, metar_rows, taf_rows, files, m, norm, calls>>

(* try: taf = get_taf(icao), answered; expand_taf_hourly(name, taf) is entered *)
TafFetched ==
    /\ pc = "taf"
    /\ \E d \in MainDocs :
          /\ taf' = d
          /\ fetched' = [fetched EXCEPT ![i].taf = Some(d)]
    /\ station' = Name(i)
    /\ pc' = "enter"
    /\ UNCHANGED <<i, t, rows, ticks, metar_rows, taf_rows, files, out, m, norm, calls>>

(* get_taf raises: except Exception as e: print("TAF error:", icao, e) *)
TafFetchError ==
    /\ pc = "taf"
    /\ out' = Append(out, <<"TAF error:", Icao(i)>>)
    /\ i' = AfterTafError(i).i
    /\ pc' = AfterTafError(i).pc
    /\ UNCHANGED <<taf, station, t, rows, ticks, metar_rows, taf_rows, files, m, norm, calls, fetched>>

(* taf_rows.extend(expand_taf_hourly(name, taf)) *)
TafExtend ==
    /\ pc = "returned"
    /\ taf_rows' = taf_rows \o rows
    /\ i' = AfterTaf(i).i
    /\ pc' = AfterTaf(i).pc
    /\ UNCHANGED <<taf, station, t, rows, ticks, metar_rows, files, out, m, norm, calls, fetched>>

(* expand_taf_hourly raises: except Exception as e: print("TAF error:", icao, e) *)
TafExpandError ==
    /\ pc = "raised"
    /\ out' = Append(out, <<"TAF error:", Icao(i)>>)
    /\ i' = AfterTafError(i).i
    /\ pc' = AfterTafError(i).pc
    /\ UNCHANGED <<taf, station, t, rows, ticks, metar_rows, taf_rows, files, m, norm, calls, fetched>>

(* write_csv(f"metar_{TODAY}.csv", metar_rows, metar_fields) *)
WriteMetar ==
    /\ pc = "write_metar"
    /\ files' = write_csv(files, FileName("metar"), metar_rows, metar_fields)
    /\ pc' = "write_taf"
    /\ UNCHANGED <<i, taf, station, t, rows, ticks, metar_rows, taf_rows, out, m, norm, calls, fetched>>

(* The open of write_csv raises; nothing in main catches it. *)
WriteMetarRaises ==
    /\ pc = "write_metar"
    /\ OpenMayRaise(metar_rows)
    /\ out' = Append(out, <<"Traceback", FileName("metar")>>)
    /\ pc' = "crashed"
    /\ UNCHANGED <<i, taf, station, t, rows, ticks, metar_rows, taf_rows, files, m, norm, calls, fetched>>

(* write_csv(f"taf_{TODAY}.csv", taf_rows, taf_fields) *)
WriteTaf ==
    /\ pc = "write_taf"
    /\ files' = write_csv(files, FileName("taf"), taf_rows, taf_fields)
    /\ pc' = "print_done"
    /\ UNCHANGED <<i, taf, station, t, rows, ticks, metar_rows, taf_rows, out, m, norm, calls, fetched>>

WriteTafRaises ==
    /\ pc = "write_taf"
    /\ OpenMayRaise(taf_rows)
    /\ out' = Append(out, <<"Traceback", FileName("taf")>>)
    /\ pc' = "crashed"
    /\ UNCHANGED <<i, taf, station, t, rows, ticks, metar_rows, taf_rows, files, m, norm, calls, fetched>>

(* print("done") *)
PrintDone ==
    /\ pc = "print_done"
    /\ out' = Append(out, <<"done">>)
    /\ pc' = "done"
    /\ UNCHANGED <<i, taf, station, t, rows, ticks, metar_rows, taf_rows, files, m, norm, calls, fetched>>

Next ==
    \/ MetarOk \/ MetarError
    \/ TafFetched \/ TafFetchError
    \/ ExpandEnter \/ ExpandTick \/ ExpandReturn
    \/ TafExtend \/ TafExpandError
    \/ WriteMetar \/ WriteMetarRaises
    \/ WriteTaf \/ WriteTafRaises
    \/ PrintDone

Spec == Init /\ [][Next]_vars

----------------------------------------------------------------------------
(* write_csv called again and again on one path *)

WriterPath == FileName("taf")

(* The rows a call may be given: up to MaxBatch rows, possibly none. *)
WriterRows ==
    {make_taf_row(Name(1), 0, [raw |-> PyStr(x)], "BASE") : x \in {"A", "B"}}

Batches == UNION {[1..n -> WriterRows] : n \in 0..MaxBatch}

InitWriter ==
    /\ pc = "writer"
    /\ i = 1
    /\ taf = NoDoc
    /\ station = ""
    /\ t = 0
    /\ rows = <<>>
    /\ ticks = <<>>
    /\ metar_rows = <<>>
    /\ taf_rows = <<>>
    /\ files = <<>>
    /\ out = <<>>
    /\ m = NoMetar
    /\ norm = <<>>
    /\ calls = <<>>
    /\ fetched = <<>>

WriterCall ==
    /\ pc = "writer"
    /\ Len(calls) < MaxCalls
    /\ \E b \in Batches :
          /\ files' = write_csv(files, WriterPath, b, taf_fields)
          /\ calls' = Append(calls, b)
    /\ UNCHANGED <<pc, i, taf, station, t, rows, ticks, metar_rows, taf_rows, out, m, norm, fetched>>

NextWriter == WriterCall

SpecWriter == InitWriter /\ [][NextWriter]_vars

----------------------------------------------------------------------------
(* parse_metar and make_taf_row on every shape of the raw field *)

Tokens == {"INTER", "1200/1400", "27015KT"}

RawValues ==
    {PyAbsent, PyNone, PyInt(0), PyStr("")}
    \cup {PyStr(x) : x \in Tokens}
    \cup {PyList(l) : l \in UNION {[1..n -> Tokens] : n \in 0..MaxRawLen}}

InitRaw ==
    /\ pc = "raw"
    /\ i = 1
    /\ taf = NoDoc
    /\ station = ""
    /\ t = 0
    /\ rows = <<>>
    /\ ticks = <<>>
    /\ metar_rows = <<>>
    /\ taf_rows = <<>>
    /\ files = <<>>
    /\ out = <<>>
    /\ m = NoMetar
    /\ norm = <<>>
    /\ calls = <<>>
    /\ fetched = <<>>

RawMetar ==
    /\ pc = "raw"
    /\ \E v \in RawValues, k \in 1..Len(Airports) :
          /\ m' = [station |-> Icao(k), raw |-> v]
          /\ norm' = <<[of |-> "metar", raw |-> v, row |-> parse_metar(m', Name(k))]>>
    /\ pc' = "normalised"
    /\ UNCHANGED <<i, taf, station, t, rows, ticks, metar_rows, taf_rows, files, out, calls, fetched>>

RawTaf ==
    /\ pc = "raw"
    /\ \E v \in RawValues, layer \in {"BASE", "TEMPO"} :
          norm' = <<[of |-> "taf", raw |-> v,
                     row |-> make_taf_row(Name(1), 0, [raw |-> v], layer)]>>
    /\ pc' = "normalised"
    /\ UNCHANGED <<i, taf, station, t, rows, ticks, metar_rows, taf_rows, files, out, m, calls, fetched>>

NextRaw == RawMetar \/ RawTaf

SpecRaw == InitRaw /\ [][NextRaw]_vars

----------------------------------------------------------------------------
(* What the expansion is meant to produce, stated without the scans *)

Range(q) == {q[k] : k \in 1..Len(q)}

Intact == Has(taf.issued) /\ Has(taf.valid)

WindowEnd == Get(taf.valid).to

(* The hour-floor of the window's start: the last whole hour not after it. *)
FloorOf(d) == (Get(d.valid).from \div Hour) * Hour

WindowFloor == FloorOf(taf)

(* Every whole hour from the floor through the window's end, ascending. *)
TicksOf(d) ==
    LET lo == FloorOf(d)
        hi == Get(d.valid).to
        n == IF hi < lo THEN 0 ELSE (hi - lo) \div Hour + 1
    IN  [k \in 1..n |-> lo + (k - 1) * Hour]

ExpectedTicks == TicksOf(taf)

IsPrefix(p, q) == Len(p) <= Len(q) /\ \A k \in 1..Len(p) : p[k] = q[k]

(* The minute a row's forecast_time names. *)
RowTime(r) == r.forecast_time[1] * 24 * Hour + r.forecast_time[2] * Hour + r.forecast_time[3]

RowsAt(x) == SelectSeq(rows, LAMBDA r : RowTime(r) = x)

CoveringBaseOf(d, x) ==
    {k \in 1..Len(d.forecast) :
        /\ d.forecast[k].type \in {"BASE", "FM"}
        /\ Has(d.forecast[k].from)
        /\ Get(d.forecast[k].from) <= x
        /\ x <= (IF Has(d.forecast[k].to) THEN Get(d.forecast[k].to) ELSE Get(d.valid).to)}

CoveringBase(x) == CoveringBaseOf(taf, x)

LatestBase(x) ==
    {k \in CoveringBase(x) :
        \A j \in CoveringBase(x) : Get(taf.forecast[j].from) <= Get(taf.forecast[k].from)}

CoveringTempo(x) ==
    {k \in 1..Len(taf.forecast) :
        /\ taf.forecast[k].type = "TEMPO"
        /\ Has(taf.forecast[k].from) /\ Has(taf.forecast[k].to)
        /\ Get(taf.forecast[k].from) <= x
        /\ x <= Get(taf.forecast[k].to)}

(* The members of a set of indices, ascending. *)
RECURSIVE Ascending(_)
Ascending(S) ==
    IF S = {} THEN <<>>
    ELSE LET lo == CHOOSE k \in S : \A j \in S : k <= j
         IN  <<lo>> \o Ascending(S \ {lo})

BaseRowsAt(x) == SelectSeq(RowsAt(x), LAMBDA r : r.layer = "BASE")

(* The expansion has completed every hour in ticks without an exception. *)
Expanding == pc \in {"loop", "returned"}

(* C1: at every expanded hour covered by some BASE/FM segment, the one base *)
(* row comes from a covering BASE/FM segment with the latest valid_from; at *)
(* an hour no BASE/FM segment covers there is no base row, and the hour is  *)
(* passed without an exception.                                             *)
C1_BasePrecedence ==
    Expanding =>
        \A x \in Range(ticks) :
            IF CoveringBase(x) = {}
            THEN BaseRowsAt(x) = <<>>
            ELSE /\ Len(BaseRowsAt(x)) = 1
                 /\ \E k \in LatestBase(x) :
                        BaseRowsAt(x)[1] =
                            [station |-> station, forecast_time |-> FormatTime(x),
                             layer |-> "BASE", raw |-> taf.forecast[k].raw]

C1_Witness ==
    /\ pc = "returned"
    /\ \E x \in Range(ticks) : CoveringBase(x) = {}
    /\ \E x \in Range(ticks) :
          /\ \E j, k \in CoveringBase(x) :
                /\ j < k
                /\ taf.forecast[j].type = "BASE" /\ taf.forecast[k].type = "FM"
                /\ Get(taf.forecast[j].from) < Get(taf.forecast[k].from)
          /\ Len(BaseRowsAt(x)) = 1

(* C2: the hours visited are the hour-floor of the window's start and every *)
(* whole hour after it up to the window's end, each once, ascending; every  *)
(* row carries a visited hour and rows are in non-decreasing hour order; the *)
(* visited hours never exceed that finite list, so the loop ends.           *)
C2_TicksExact ==
    (pc \in {"loop", "returned", "raised"} /\ Intact) =>
        /\ IsPrefix(ticks, ExpectedTicks)
        /\ pc = "loop" => t = WindowFloor + Len(ticks) * Hour
        /\ pc = "returned" => ticks = ExpectedTicks
        /\ \A k \in 1..Len(rows) : RowTime(rows[k]) \in Range(ticks)
        /\ \A j, k \in 1..Len(rows) : j < k => RowTime(rows[j]) <= RowTime(rows[k])

C2_Witness ==
    /\ pc = "returned"
    /\ Get(taf.valid).from = 0 /\ WindowEnd = MaxHour * Hour
    /\ Len(ticks) = MaxHour + 1
    /\ Len(rows) > Len(ticks)

(* C3: the rows of an expanded hour are at most one BASE row, first, then *)
(* one TEMPO row for each TEMPO segment whose interval (both ends         *)
(* included) contains the hour, in forecast-list order.                   *)
C3_TempoRows ==
    Expanding =>
        \A x \in Range(ticks) :
            LET ra == RowsAt(x)
                idx == Ascending(CoveringTempo(x))
                nb == Len(ra) - Len(idx)
            IN  /\ nb \in {0, 1}
                /\ nb = 1 => ra[1].layer = "BASE"
                /\ \A j \in 1..Len(idx) :
                       ra[nb + j] =
                           [station |-> station, forecast_time |-> FormatTime(x),
                            layer |-> "TEMPO", raw |-> taf.forecast[idx[j]].raw]

C3_Witness ==
    /\ pc = "returned"
    /\ \E x \in Range(ticks) :
          /\ Cardinality(CoveringTempo(x)) = 2
          /\ Len(RowsAt(x)) = 3
          /\ RowsAt(x)[1].layer = "BASE"
    /\ \E x \in Range(ticks) :
          \E k \in 1..Len(taf.forecast) :
              taf.forecast[k].type = "TEMPO" /\ k \notin CoveringTempo(x)

(* C4, as claimed: a document with every required key expands without an *)
(* exception, and a segment without an end reaches to the TAF's end, a    *)
(* TEMPO one giving a TEMPO row at every hour from its start on.          *)
C4_OpenEndedAllKinds ==
    (Intact /\ \A k \in 1..Len(taf.forecast) : Has(taf.forecast[k].from)) =>
        /\ pc # "raised"
        /\ pc = "returned" =>
              \A k \in 1..Len(taf.forecast), x \in Range(ticks) :
                  (/\ taf.forecast[k].type = "TEMPO"
                   /\ ~Has(taf.forecast[k].to)
                   /\ Get(taf.forecast[k].from) <= x) =>
                      \E r \in Range(RowsAt(x)) :
                          r.layer = "TEMPO" /\ r.raw = taf.forecast[k].raw

(* C10: among the covering BASE/FM segments that share the latest *)
(* valid_from, the last one in the forecast list gives the base row. *)
C10_TieBreakLast ==
    Expanding =>
        \A x \in Range(ticks) :
            LatestBase(x) # {} =>
                LET k == CHOOSE k \in LatestBase(x) : \A j \in LatestBase(x) : j <= k
                IN  BaseRowsAt(x) =
                        <<[station |-> station, forecast_time |-> FormatTime(x),
                           layer |-> "BASE", raw |-> taf.forecast[k].raw]>>

C10_Witness ==
    /\ pc = "returned"
    /\ \E x \in Range(ticks) :
          /\ Cardinality(LatestBase(x)) >= 2
          /\ Len(BaseRowsAt(x)) = 1

----------------------------------------------------------------------------
(* What a run of main is meant to leave behind *)

AfterLoop == pc \in {"write_metar", "write_taf", "print_done", "done", "crashed"}

(* Airport k's turn of the for loop is over. *)
Processed(k) == k < i \/ AfterLoop

MetarFailed(k) == <<"METAR error:", Icao(k)>> \in Range(out)

TafFailed(k) == <<"TAF error:", Icao(k)>> \in Range(out)

MetarRowsOf(k) == SelectSeq(metar_rows, LAMBDA r : r.airport = Name(k))

TafRowsOf(k) == SelectSeq(taf_rows, LAMBDA r : r.station = Name(k))

(* The data lines of a file, none when the file does not exist. *)
DataLines(filename) ==
    IF filename \in DOMAIN files
    THEN SelectSeq(files[filename], LAMBDA l : l.kind = "row")
    ELSE <<>>

(* C5: an airport whose TAF fetch or expansion failed has no TAF row at all; *)
(* every airport still gets both of its fetches, its METAR row when its      *)
(* METAR was answered, and its TAF rows when its TAF did not fail, whatever  *)
(* failed for the others or for its other report; the accumulated rows are   *)
(* what the writer is given.                                                 *)
C5_FailureIsolated ==
    /\ AfterLoop => Len(fetched) = Len(Airports)
    /\ \A k \in 1..Len(Airports) :
          /\ TafFailed(k) => TafRowsOf(k) = <<>>
          /\ k <= Len(fetched) =>
                MetarRowsOf(k) =
                    IF Has(fetched[k].metar)
                    THEN <<[airport |-> Name(k), icao |-> Get(fetched[k].metar).station,
                            raw |-> Get(fetched[k].metar).raw]>>
                    ELSE <<>>
          /\ Processed(k) =>
                /\ k <= Len(fetched)
                /\ MetarFailed(k) \/ Has(fetched[k].metar)
                /\ TafFailed(k) \/ Has(fetched[k].taf)
                /\ ~TafFailed(k) =>
                      \A x \in Range(TicksOf(Get(fetched[k].taf))) :
                          CoveringBaseOf(Get(fetched[k].taf), x) # {} =>
                              \E r \in Range(TafRowsOf(k)) : RowTime(r) = x /\ r.layer = "BASE"
    /\ pc \in {"write_taf", "print_done", "done"} =>
          DataLines(FileName("metar")) = RowLines(metar_rows, metar_fields)
    /\ pc \in {"print_done", "done"} =>
          DataLines(FileName("taf")) = RowLines(taf_rows, taf_fields)

C5_Witness ==
    /\ pc = "done"
    /\ Has(fetched[1].metar) /\ Has(fetched[1].taf) /\ TafFailed(1)
    /\ \E k \in 1..Len(Get(fetched[1].taf).forecast) : ~Has(Get(fetched[1].taf).forecast[k].from)
    /\ Len(MetarRowsOf(1)) = 1
    /\ MetarFailed(2) /\ ~TafFailed(2) /\ Len(TafRowsOf(2)) > 1
    /\ Len(DataLines(FileName("taf"))) = Len(TafRowsOf(2))
    /\ Len(DataLines(FileName("metar"))) = 1

(* C6, as claimed: a run whose METAR write failed still handles the TAF *)
(* rows (writes them, or fails on them too) and still reports "done".   *)
C6_WriteErrorCaught ==
    (pc \in {"done", "crashed"} /\ <<"Traceback", FileName("metar")>> \in Range(out)) =>
        /\ <<"done">> \in Range(out)
        /\ taf_rows # <<>> =>
              \/ DataLines(FileName("taf")) = RowLines(taf_rows, taf_fields)
              \/ <<"Traceback", FileName("taf")>> \in Range(out)

(* The airport a data line belongs to: its first column. *)
AirportsIn(filename) == {l.cells[1] : l \in Range(DataLines(filename))}

----------------------------------------------------------------------------
(* What the writer and the normaliser are meant to do *)

RECURSIVE Flatten(_)
Flatten(bs) == IF bs = <<>> THEN <<>> ELSE Head(bs) \o Flatten(Tail(bs))

(* C7: after any calls on a path that did not exist, the file is one header *)
(* line followed by the rows of the calls in call order, earlier content    *)
(* kept as it was; with only empty calls so far there is no file at all.    *)
C7_AppendOnly ==
    pc = "writer" =>
        LET data == Flatten(calls)
        IN  IF data = <<>>
            THEN files = <<>>
            ELSE /\ DOMAIN files = {WriterPath}
                 /\ files[WriterPath] =
                        <<[kind |-> "header", cells |-> taf_fields]>>
                        \o [k \in 1..Len(data) |->
                              [kind |-> "row",
                               cells |-> <<data[k].station, data[k].forecast_time,
                                           data[k].layer, data[k].raw>>]]

C7_Witness ==
    /\ pc = "writer"
    /\ Len(calls) = 3
    /\ calls[1] = <<>> /\ calls[2] # <<>> /\ calls[3] = calls[2]
    /\ Len(files[WriterPath]) = 1 + 2 * Len(calls[2])

(* The raw text the normaliser is to give for a source value. *)
RawTextOf(v) ==
    IF v.tag = "list" THEN PyStr(Join(v.l))
    ELSE IF v.tag = "str" THEN v
    ELSE PyStr("")

(* C9, as claimed: METAR records and TAF rows alike carry the normalised *)
(* raw text, always a string.                                            *)
C9_RawUniform ==
    \A k \in 1..Len(norm) :
        /\ norm[k].row.raw.tag = "str"
        /\ norm[k].row.raw = RawTextOf(norm[k].raw)

====
